---- MODULE Spec2Model ----
(***************************************************************************)
(* Landing-page wizard: the provider dispatcher (AIManager), the workflow  *)
(* state store (StateManager) and the page shell (app.py, step modules).   *)
(*                                                                         *)
(* Three specifications share the variables:                               *)
(*   SpecAI    - AIManager.generate_content called with every model        *)
(*               argument, availability combination and backend outcome;   *)
(*   SpecStore - the StateManager methods called directly, any argument;   *)
(*   Spec      - a user session: one action per button of the page.        *)
(***************************************************************************)
EXTENDS Integers, Sequences, FiniteSets, TLC

VARIABLES
    openai_available,     \* AIManager.openai_available
    anthropic_available,  \* AIManager.anthropic_available
    gemini_available,     \* AIManager.gemini_available
    gen,                  \* the last generate_content call: arguments, what it did, what it returned
    workflow_data,        \* st.session_state.workflow_data (a dict)
    now,                  \* the wall clock read by datetime.now()
    lastOp,               \* the last operation run: name, argument, return value
    calls                 \* number of direct StateManager calls made (SpecStore)

vars == <<openai_available, anthropic_available, gemini_available, gen,
          workflow_data, now, lastOp, calls>>

aiVars == <<openai_available, anthropic_available, gemini_available>>

----------------------------------------------------------------------------
(* Python strings: a model name is the sequence of its characters.         *)

Chars ==
    [ x \in {"gpt-4", "gpt-4-turbo-preview", "claude-3-5-sonnet-20240620",
             "gemini-1.5-pro", "llama-3", "gp", "GPT-4", ""} |->
        CASE x = "gpt-4" -> <<"g","p","t","-","4">>
          [] x = "gpt-4-turbo-preview" ->
                <<"g","p","t","-","4","-","t","u","r","b","o","-",
                  "p","r","e","v","i","e","w">>
          [] x = "claude-3-5-sonnet-20240620" ->
                <<"c","l","a","u","d","e","-","3","-","5","-",
                  "s","o","n","n","e","t","-","2","0","2","4","0","6","2","0">>
          [] x = "gemini-1.5-pro" ->
                <<"g","e","m","i","n","i","-","1",".","5","-","p","r","o">>
          [] x = "llama-3" -> <<"l","l","a","m","a","-","3">>
          [] x = "gp" -> <<"g","p">>
          [] x = "GPT-4" -> <<"G","P","T","-","4">>
          [] x = "" -> <<>> ]

\* The model names a caller can pass as a string.
ModelNames == DOMAIN Chars

\* The type annotation `model: str` is not enforced: None is a possible argument.
PyNone == "<None>"

ModelArgs == ModelNames \cup {PyNone}

IsString(m) == m \in ModelNames

\* str.startswith(prefix)
StartsWith(m, prefix) ==
    /\ Len(Chars[m]) >= Len(prefix)
    /\ SubSeq(Chars[m], 1, Len(prefix)) = prefix

GptPrefix == <<"g","p","t">>
ClaudePrefix == <<"c","l","a","u","d","e">>
GeminiPrefix == <<"g","e","m","i","n","i">>

----------------------------------------------------------------------------
(* What the remote service does with one request.                          *)

\* A reply the client library hands back on a call that did not raise.
Responses ==
    { [text |-> <<"{","\"","a","\"",":","1","}","!">>, total_tokens |-> 12,
       input_tokens |-> 5, output_tokens |-> 7],
      [text |-> <<>>, total_tokens |-> 3, input_tokens |-> 3, output_tokens |-> 0] }

\* Exceptions raised by the network layer.
TransportErrors == {"APITimeoutError"}
\* Exceptions with which the provider rejects the request, and a reply that
\* cannot be read (response.choices[0] on an empty list).
ApplicationErrors == {"AuthenticationError", "IndexError"}

NoResponse == [text |-> <<>>, total_tokens |-> 0, input_tokens |-> 0, output_tokens |-> 0]

Outcomes ==
    { [kind |-> "ok", response |-> r, exc |-> ""] : r \in Responses }
    \cup { [kind |-> "raise", response |-> NoResponse, exc |-> e] :
              e \in TransportErrors \cup ApplicationErrors }

----------------------------------------------------------------------------
(* AIManager                                                               *)

Failure(msg, cause) == [error |-> [msg |-> msg, cause |-> cause], success |-> FALSE]

\* Variant of GenerateOpenAI: the error result also carries a content key.
GenerateOpenAI_ContentOnError(model, outcome) ==
    IF outcome.kind = "ok"
    THEN [content |-> outcome.response.text,
          model_used |-> model,
          tokens_used |-> outcome.response.total_tokens,
          success |-> TRUE]
    ELSE [content |-> <<>>,
          error |-> [msg |-> "OpenAI API error", cause |-> outcome.exc],
          success |-> FALSE]

GenerateOpenAI(model, outcome) ==
    IF outcome.kind = "ok"
    THEN [content |-> outcome.response.text,
          model_used |-> model,
          tokens_used |-> outcome.response.total_tokens,
          success |-> TRUE]
    ELSE Failure("OpenAI API error", outcome.exc)

\* Variant of GenerateGemini: the error message carries another provider's name.
GenerateGemini_WrongTag(outcome) ==
    IF outcome.kind = "ok"
    THEN [content |-> outcome.response.text,
          model_used |-> "gemini-1.5-pro",
          tokens_used |-> Len(outcome.response.text) \div 4,
          success |-> TRUE]
    ELSE Failure("OpenAI API error", outcome.exc)

GenerateGemini(outcome) ==
    IF outcome.kind = "ok"
    THEN [content |-> outcome.response.text,
          model_used |-> "gemini-1.5-pro",
          tokens_used |-> Len(outcome.response.text) \div 4,
          success |-> TRUE]
    ELSE Failure("Gemini API error", outcome.exc)

GenerateAnthropic(model, outcome) ==
    IF outcome.kind = "ok"
    THEN [content |-> outcome.response.text,
          model_used |-> model,
          tokens_used |-> outcome.response.input_tokens + outcome.response.output_tokens,
          success |-> FALSE]
    ELSE Failure("Anthropic API error", outcome.exc)

\* range(3): the attempts of one generate_content call are numbered 0, 1, 2.
MaxAttempts == 3
\* random.uniform(1, 3): the shortest and the longest back-off, in whole time units.
SleepMin == 1
SleepMax == 3

\* One thing generate_content did: a backend call (with the exception it
\* raised inside the backend wrapper, "" when none), an exception reaching
\* the retry loop, or a sleep.
Event(ev, backend, attempt, exc, delay) ==
    [ev |-> ev, backend |-> backend, attempt |-> attempt, exc |-> exc, delay |-> delay]

Availability == [openai : BOOLEAN, anthropic : BOOLEAN, gemini : BOOLEAN]

\* The events of an attempt whose body returned: the backend call, if one was made.
CallEvents(body, attempt, outcome) ==
    IF body.backend = "none" THEN <<>>
    ELSE << Event("call", body.backend, attempt, outcome.exc, 0) >>

\* Variant of TryBody: the requested model's prefix is not looked at.
TryBody_NoPrefix(model, av, outcome) ==
    IF ~IsString(model)
    THEN [raised |-> TRUE, exc |-> "AttributeError", backend |-> "none",
          result |-> Failure("", "")]
    ELSE IF av.openai
    THEN [raised |-> FALSE, exc |-> "", backend |-> "openai",
          result |-> GenerateOpenAI("gpt-4", outcome)]
    ELSE IF av.gemini
    THEN [raised |-> FALSE, exc |-> "", backend |-> "gemini",
          result |-> GenerateGemini(outcome)]
    ELSE IF av.anthropic
    THEN [raised |-> FALSE, exc |-> "", backend |-> "anthropic",
          result |-> GenerateAnthropic("claude-3-5-sonnet-20240620", outcome)]
    ELSE [raised |-> FALSE, exc |-> "", backend |-> "none",
          result |-> Failure("No available providers", "")]

\* Variant of TryBody: the fall-back tries Anthropic before Gemini.
TryBody_AnthropicBeforeGemini(model, av, outcome) ==
    IF ~IsString(model)
    THEN [raised |-> TRUE, exc |-> "AttributeError", backend |-> "none",
          result |-> Failure("", "")]
    ELSE IF StartsWith(model, GptPrefix) /\ av.openai
    THEN [raised |-> FALSE, exc |-> "", backend |-> "openai",
          result |-> GenerateOpenAI(model, outcome)]
    ELSE IF StartsWith(model, ClaudePrefix) /\ av.anthropic
    THEN [raised |-> FALSE, exc |-> "", backend |-> "anthropic",
          result |-> GenerateAnthropic(model, outcome)]
    ELSE IF StartsWith(model, GeminiPrefix) /\ av.gemini
    THEN [raised |-> FALSE, exc |-> "", backend |-> "gemini",
          result |-> GenerateGemini(outcome)]
    ELSE IF av.openai
    THEN [raised |-> FALSE, exc |-> "", backend |-> "openai",
          result |-> GenerateOpenAI("gpt-4", outcome)]
    ELSE IF av.anthropic
    THEN [raised |-> FALSE, exc |-> "", backend |-> "anthropic",
          result |-> GenerateAnthropic("claude-3-5-sonnet-20240620", outcome)]
    ELSE IF av.gemini
    THEN [raised |-> FALSE, exc |-> "", backend |-> "gemini",
          result |-> GenerateGemini(outcome)]
    ELSE [raised |-> FALSE, exc |-> "", backend |-> "none",
          result |-> Failure("No available providers", "")]

\* The body of the try block of one attempt: which backend wrapper runs and
\* what it returns, or the exception the body raises.
TryBody(model, av, outcome) ==
    IF ~IsString(model)
    THEN \* model.startswith: 'NoneType' object has no attribute 'startswith'
         [raised |-> TRUE, exc |-> "AttributeError", backend |-> "none",
          result |-> Failure("", "")]
    ELSE IF StartsWith(model, GptPrefix) /\ av.openai
    THEN [raised |-> FALSE, exc |-> "", backend |-> "openai",
          result |-> GenerateOpenAI(model, outcome)]
    ELSE IF StartsWith(model, ClaudePrefix) /\ av.anthropic
    THEN [raised |-> FALSE, exc |-> "", backend |-> "anthropic",
          result |-> GenerateAnthropic(model, outcome)]
    ELSE IF StartsWith(model, GeminiPrefix) /\ av.gemini
    THEN [raised |-> FALSE, exc |-> "", backend |-> "gemini",
          result |-> GenerateGemini(outcome)]
    ELSE IF av.openai
    THEN [raised |-> FALSE, exc |-> "", backend |-> "openai",
          result |-> GenerateOpenAI("gpt-4", outcome)]
    ELSE IF av.gemini
    THEN [raised |-> FALSE, exc |-> "", backend |-> "gemini",
          result |-> GenerateGemini(outcome)]
    ELSE IF av.anthropic
    THEN [raised |-> FALSE, exc |-> "", backend |-> "anthropic",
          result |-> GenerateAnthropic("claude-3-5-sonnet-20240620", outcome)]
    ELSE [raised |-> FALSE, exc |-> "", backend |-> "none",
          result |-> Failure("No available providers", "")]

\* Variant of AttemptLoop: the handler compares the attempt number with 3, so
\* that it also sleeps after the last attempt.
RECURSIVE AttemptLoop_SleepAfterLast(_, _, _, _, _, _)
AttemptLoop_SleepAfterLast(attempt, model, av, outcomes, delays, events) ==
    IF attempt >= MaxAttempts
    THEN [result |-> Failure("Unexpected error", ""), events |-> events, raised |-> FALSE]
    ELSE LET body == TryBody(model, av, outcomes[attempt + 1])
         IN  IF ~body.raised
             THEN [result |-> body.result,
                   events |-> events \o CallEvents(body, attempt, outcomes[attempt + 1]),
                   raised |-> FALSE]
             ELSE AttemptLoop_SleepAfterLast(attempt + 1, model, av, outcomes, delays,
                      events \o << Event("raise", "none", attempt, body.exc, 0),
                                   Event("sleep", "none", attempt, "",
                                         delays[IF attempt < 2 THEN attempt + 1 ELSE 1]) >>)

\* for attempt in range(3): try ... except Exception ...
RECURSIVE AttemptLoop(_, _, _, _, _, _)
AttemptLoop(attempt, model, av, outcomes, delays, events) ==
    IF attempt >= MaxAttempts
    THEN [result |-> Failure("Unexpected error", ""), events |-> events, raised |-> FALSE]
    ELSE LET body == TryBody(model, av, outcomes[attempt + 1])
         IN  IF ~body.raised
             THEN [result |-> body.result,
                   events |-> events \o CallEvents(body, attempt, outcomes[attempt + 1]),
                   raised |-> FALSE]
             ELSE LET caught == Append(events, Event("raise", "none", attempt, body.exc, 0))
                  IN  IF attempt = 2
                      THEN [result |-> Failure("Failed after 3 attempts", body.exc),
                            events |-> caught, raised |-> FALSE]
                      ELSE AttemptLoop(attempt + 1, model, av, outcomes, delays,
                               Append(caught,
                                      Event("sleep", "none", attempt, "", delays[attempt + 1])))

\* Variant of GenerateContent: the check on entry is missing.
GenerateContent_NoEntryCheck(model, av, outcomes, delays) ==
    AttemptLoop(0, model, av, outcomes, delays, <<>>)

\* AIManager.generate_content: outcomes[k] is what the remote service does
\* with the k-th attempt's request, delays[k] the k-th value of random.uniform.
GenerateContent(model, av, outcomes, delays) ==
    IF ~(av.openai \/ av.anthropic \/ av.gemini)
    THEN [result |-> Failure("No AI providers available. Please configure API keys in Streamlit Cloud secrets.", ""),
          events |-> <<>>, raised |-> FALSE]
    ELSE AttemptLoop(0, model, av, outcomes, delays, <<>>)

Avail ==
    [openai |-> openai_available, anthropic |-> anthropic_available,
     gemini |-> gemini_available]

OutcomeSeqs == [1..MaxAttempts -> Outcomes]
DelaySeqs == [1..(MaxAttempts - 1) -> SleepMin..SleepMax]

NoCall ==
    [called |-> FALSE, model |-> "", result |-> Failure("", ""), events |-> <<>>,
     raised |-> FALSE]

Called(model, r) ==
    [called |-> TRUE, model |-> model, result |-> r.result, events |-> r.events,
     raised |-> r.raised]

----------------------------------------------------------------------------
(* Python dicts: functions from keys to values.                            *)

EmptyDict == [k \in {} |-> TRUE]

HasKey(d, k) == k \in DOMAIN d

\* dict.get(k, default)
Get(d, k, default) == IF k \in DOMAIN d THEN d[k] ELSE default

\* d.update(e): the keys of e overwrite, the other keys of d stay.
Update(d, e) ==
    [k \in DOMAIN d \cup DOMAIN e |-> IF k \in DOMAIN e THEN e[k] ELSE d[k]]

\* d[k] = v
SetItem(d, k, v) ==
    [x \in DOMAIN d \cup {k} |-> IF x = k THEN v ELSE d[x]]

----------------------------------------------------------------------------
(* StateManager                                                            *)

\* The workflow has eight steps.
NumSteps == 8
Steps == 1..NumSteps

\* f'step_{n}_completed' and f'step_{n}_data', built only for n in 1..8.
CompletedKey(n) ==
    <<"step_1_completed", "step_2_completed", "step_3_completed", "step_4_completed",
      "step_5_completed", "step_6_completed", "step_7_completed", "step_8_completed">>[n]

DataKey(n) ==
    <<"step_1_data", "step_2_data", "step_3_data", "step_4_data",
      "step_5_data", "step_6_data", "step_7_data", "step_8_data">>[n]

DefaultOptions ==
    [include_agitation_module |-> TRUE, include_comparison_table |-> TRUE,
     include_audience_qualifier |-> TRUE, include_before_after_slider |-> FALSE,
     page_type |-> "affiliate", product_type |-> "supplement"]

\* StateManager.__init__: default_workflow_data, built at time t.
DefaultWorkflowData(t) ==
    [k \in {"project_name", "selected_model", "current_step", "created_at",
            "last_updated", "options"}
           \cup {CompletedKey(n) : n \in Steps} \cup {DataKey(n) : n \in Steps} |->
        CASE k = "project_name" -> ""
          [] k = "selected_model" -> "gemini-1.5-pro"
          [] k = "current_step" -> 1
          [] k \in {"created_at", "last_updated"} -> t
          [] k = "options" -> DefaultOptions
          [] k \in {CompletedKey(n) : n \in Steps} -> FALSE
          [] OTHER -> EmptyDict]

\* initialize_session_state on st.session_state, a dict that may lack the key
\* 'workflow_data': the default state is stored when the key is missing.
CreateIfMissing(session, t) ==
    IF ~HasKey(session, "workflow_data")
    THEN SetItem(session, "workflow_data", DefaultWorkflowData(t))
    ELSE session

\* Variant of InitializeSessionState: every default key is written, present or not.
InitializeSessionState_Overwrite(wd, t) ==
    [k \in DOMAIN wd \cup DOMAIN DefaultWorkflowData(t) |->
        IF k \in DOMAIN DefaultWorkflowData(t) THEN DefaultWorkflowData(t)[k] ELSE wd[k]]

\* initialize_session_state on a session that has workflow_data: the default
\* keys that are missing are added, the keys present keep their values.
InitializeSessionState(wd, t) ==
    [k \in DOMAIN wd \cup DOMAIN DefaultWorkflowData(t) |->
        IF k \in DOMAIN wd THEN wd[k] ELSE DefaultWorkflowData(t)[k]]

\* Variant of MarkStepCompleted: the pointer advances after the last step too.
MarkStepCompleted_AdvancePastEnd(wd, n, t) ==
    IF 1 <= n /\ n <= 8
    THEN LET marked == SetItem(SetItem(wd, CompletedKey(n), TRUE), "last_updated", t)
         IN  IF n <= 8 THEN SetItem(marked, "current_step", n + 1) ELSE marked
    ELSE wd

MarkStepCompleted(wd, n, t) ==
    IF 1 <= n /\ n <= 8
    THEN LET marked == SetItem(SetItem(wd, CompletedKey(n), TRUE), "last_updated", t)
         IN  IF n < 8 THEN SetItem(marked, "current_step", n + 1) ELSE marked
    ELSE wd

\* Variant of SaveStepData: the payload is written under the next step's key.
SaveStepData_NextKey(wd, n, data, t) ==
    IF 1 <= n /\ n <= 8
    THEN SetItem(SetItem(wd, DataKey(IF n < 8 THEN n + 1 ELSE 1), data), "last_updated", t)
    ELSE wd

SaveStepData(wd, n, data, t) ==
    IF 1 <= n /\ n <= 8
    THEN SetItem(SetItem(wd, DataKey(n), data), "last_updated", t)
    ELSE wd

GetStepData(wd, n) ==
    IF 1 <= n /\ n <= 8 THEN Get(wd, DataKey(n), EmptyDict) ELSE EmptyDict

IsStepCompleted(wd, n) ==
    IF 1 <= n /\ n <= 8 THEN Get(wd, CompletedKey(n), FALSE) ELSE FALSE

GetCurrentStep(wd) == Get(wd, "current_step", 1)

\* Variant of SetCurrentStep: the range check is missing.
SetCurrentStep_NoRangeCheck(wd, n) == SetItem(wd, "current_step", n)

SetCurrentStep(wd, n) ==
    IF 1 <= n /\ n <= 8 THEN SetItem(wd, "current_step", n) ELSE wd

\* Variant of CanProceedLoop: only the step just before the target is looked at.
RECURSIVE CanProceedLoop_PreviousOnly(_, _, _)
CanProceedLoop_PreviousOnly(wd, i, step_number) ==
    IF i >= step_number THEN TRUE
    ELSE IF i = step_number - 1 /\ ~IsStepCompleted(wd, i) THEN FALSE
    ELSE CanProceedLoop_PreviousOnly(wd, i + 1, step_number)

\* for i in range(1, step_number): if not self.is_step_completed(i): return False
RECURSIVE CanProceedLoop(_, _, _)
CanProceedLoop(wd, i, step_number) ==
    IF i >= step_number THEN TRUE
    ELSE IF ~IsStepCompleted(wd, i) THEN FALSE
    ELSE CanProceedLoop(wd, i + 1, step_number)

CanProceedToStep(wd, step_number) ==
    IF step_number = 1 THEN TRUE ELSE CanProceedLoop(wd, 1, step_number)

----------------------------------------------------------------------------
(* JSON: json.dumps writes each value in the syntax of its Python type,    *)
(* json.loads reads each piece of syntax back.                             *)

FlagKeys == {CompletedKey(n) : n \in Steps}
NumberKeys == {"current_step"}
StringKeys == {"project_name", "selected_model", "created_at", "last_updated",
               "exported_at", "saved_at"}

\* json.dumps of the value stored under top-level key k.
JsonOf(k, v) ==
    IF k \in FlagKeys THEN [literal |-> IF v THEN "true" ELSE "false"]
    ELSE IF k \in NumberKeys THEN [number |-> v]
    ELSE IF k \in StringKeys THEN [string |-> v]
    ELSE [object |-> v]

\* json.loads of one value.
PyOf(j) ==
    IF HasKey(j, "literal") THEN j.literal = "true"
    ELSE IF HasKey(j, "number") THEN j.number
    ELSE IF HasKey(j, "string") THEN j.string
    ELSE j.object

----------------------------------------------------------------------------
(* Project files                                                           *)

\* _create_research_structure, _create_outline_structure, ...: the step's
\* structure is written out in the module; ai_response is a parameter that the
\* body never reads.
CreateStructure(n, ai_response) == [k \in {"generated_for"} |-> n]

\* What a step stores as its payload: its structure and the response as
\* generate_content returned it.
StepData(n, ai_response) ==
    [structure |-> CreateStructure(n, ai_response), ai_response |-> ai_response]

\* The response kept in the payloads of a saved project.
SavedResponse ==
    [content |-> <<"{","\"","a","\"",":","1","}","!">>,
     model_used |-> "gpt-4-turbo-preview", tokens_used |-> 12, success |-> TRUE]

\* The payload of step n in a saved project.
StepPayload(n) == StepData(n, SavedResponse)

\* A file is a text; json.loads either raises JSONDecodeError or returns the
\* value the text denotes.
ObjectFile(d) == [wellformed |-> TRUE, type |-> "dict", value |-> d]

FileCurrentStepOnly == ObjectFile([k \in {"current_step"} |-> 5])

FileStepPastEnd ==
    ObjectFile([k \in {"project_name", "current_step"} |->
                   IF k = "project_name" THEN "" ELSE 9])

FileThreeDone ==
    ObjectFile([k \in {"project_name", "current_step", "selected_model",
                       CompletedKey(1), CompletedKey(2), CompletedKey(3),
                       DataKey(1), DataKey(2), DataKey(3)} |->
        CASE k = "project_name" -> ""
          [] k = "current_step" -> 4
          [] k = "selected_model" -> "gpt-4"
          [] k \in {CompletedKey(1), CompletedKey(2), CompletedKey(3)} -> TRUE
          [] k = DataKey(1) -> StepPayload(1)
          [] k = DataKey(2) -> StepPayload(2)
          [] OTHER -> StepPayload(3)])

FileNumber == [wellformed |-> TRUE, type |-> "int", value |-> EmptyDict]

FileMalformed == [wellformed |-> FALSE, type |-> "none", value |-> EmptyDict]

\* More texts passed to import_project_state: an object without current_step,
\* the list [] and null.
FileNoCurrentStep ==
    ObjectFile([k \in {"project_name", CompletedKey(1)} |->
                   IF k = "project_name" THEN "Keto" ELSE TRUE])

FileList == [wellformed |-> TRUE, type |-> "list", value |-> EmptyDict]

FileNull == [wellformed |-> TRUE, type |-> "null", value |-> EmptyDict]

ImportFileSeq ==
    <<FileCurrentStepOnly, FileStepPastEnd, FileThreeDone, FileNumber, FileMalformed,
      FileNoCurrentStep, FileList, FileNull>>

ImportFiles == {ImportFileSeq[i] : i \in 1..Len(ImportFileSeq)}

\* The number under which lastOp records a file.
FileIndex(file) == CHOOSE i \in 1..Len(ImportFileSeq) : ImportFileSeq[i] = file

\* export_project_state at time t: the text json.dumps writes for a copy of
\* workflow_data with the key exported_at added.
ExportProjectState_Defaults(wd, t) ==
    LET export_data == SetItem(DefaultWorkflowData(t), "exported_at", t)
    IN  ObjectFile([k \in DOMAIN export_data |-> PyOf(JsonOf(k, export_data[k]))])

ExportProjectState(wd, t) ==
    LET export_data == SetItem(wd, "exported_at", t)
    IN  ObjectFile([k \in DOMAIN export_data |-> PyOf(JsonOf(k, export_data[k]))])

\* `field not in imported_data` for a dict (its keys) and a list (its items).
FieldIn(file, field) ==
    IF file.type = "dict" THEN HasKey(file.value, field)
    ELSE \E i \in DOMAIN file.value : file.value[i] = field

\* Variant of ImportProjectState: the document is merged before it is validated.
ImportProjectState_MergeFirst(wd, file, t) ==
    IF ~file.wellformed
    THEN [wd |-> wd, ret |-> "False"]
    ELSE IF file.type \in {"int", "null"}
    THEN [wd |-> wd, ret |-> "raised"]
    ELSE IF file.type # "dict"
    THEN [wd |-> wd,
          ret |-> IF \E field \in {"project_name", "current_step"} : ~FieldIn(file, field)
                  THEN "False" ELSE "raised"]
    ELSE IF \E field \in {"project_name", "current_step"} : ~FieldIn(file, field)
    THEN [wd |-> Update(wd, file.value), ret |-> "False"]
    ELSE [wd |-> SetItem(Update(wd, file.value), "last_updated", t), ret |-> "True"]

\* Variant of ImportProjectState: the state is reset to the defaults before the merge.
ImportProjectState_ResetFirst(wd, file, t) ==
    IF ~file.wellformed
    THEN [wd |-> wd, ret |-> "False"]
    ELSE IF file.type \in {"int", "null"}
    THEN [wd |-> wd, ret |-> "raised"]
    ELSE IF \E field \in {"project_name", "current_step"} : ~FieldIn(file, field)
    THEN [wd |-> wd, ret |-> "False"]
    ELSE IF file.type # "dict"
    THEN [wd |-> wd, ret |-> "raised"]
    ELSE [wd |-> SetItem(Update(Update(wd, DefaultWorkflowData(t)), file.value),
                         "last_updated", t),
          ret |-> "True"]

\* import_project_state: the new workflow_data and the value returned;
\* "raised" when an exception other than JSONDecodeError and KeyError escapes.
ImportProjectState(wd, file, t) ==
    IF ~file.wellformed
    THEN [wd |-> wd, ret |-> "False"]
    ELSE IF file.type \in {"int", "null"}
    THEN \* `field not in 5`, `field not in None`: TypeError, which the except
         \* clause does not name
         [wd |-> wd, ret |-> "raised"]
    ELSE IF \E field \in {"project_name", "current_step"} : ~FieldIn(file, field)
    THEN [wd |-> wd, ret |-> "False"]
    ELSE IF file.type # "dict"
    THEN \* dict.update(list of strings): ValueError, not named either
         [wd |-> wd, ret |-> "raised"]
    ELSE [wd |-> SetItem(Update(wd, file.value), "last_updated", t), ret |-> "True"]

----------------------------------------------------------------------------
(* Bounds                                                                  *)

\* The clock takes the values 0..MaxTime.
MaxTime == 1
\* Direct StateManager calls made in one run of SpecStore.
MaxCalls == 2

\* Step numbers passed to the store, in and out of range.
StepArgs == 0..(NumSteps + 1)

\* Payloads passed to save_step_data.
PayloadArgs == {EmptyDict, StepPayload(1)}

Op(name, arg, ret) == [op |-> name, arg |-> arg, ret |-> ret]

----------------------------------------------------------------------------
(* AIManager: set-up from the secrets, and the model catalogue             *)

\* The names under which _get_secret_key looks for each provider's key.
KeyNames(b) ==
    CASE b = "openai" -> <<"OPENAI_API_KEY", "openai_api_key", "OPENAI_KEY", "openai_key">>
      [] b = "gemini" -> <<"GOOGLE_API_KEY", "google_api_key", "GEMINI_API_KEY", "gemini_api_key">>
      [] OTHER -> <<"ANTHROPIC_API_KEY", "anthropic_api_key", "ANTHROPIC_KEY", "anthropic_key">>

\* Variant of FirstNonEmpty: the first key that is present is returned, empty or not.
RECURSIVE FirstNonEmpty_FirstPresent(_, _, _)
FirstNonEmpty_FirstPresent(d, names, i) ==
    IF i > Len(names) THEN PyNone
    ELSE IF HasKey(d, names[i]) THEN d[names[i]]
    ELSE FirstNonEmpty_FirstPresent(d, names, i + 1)

\* for key_name in possible_keys: if key_name in d: if d[key_name]: return it
RECURSIVE FirstNonEmpty(_, _, _)
FirstNonEmpty(d, names, i) ==
    IF i > Len(names) THEN PyNone
    ELSE IF HasKey(d, names[i]) /\ d[names[i]] # "" THEN d[names[i]]
    ELSE FirstNonEmpty(d, names, i + 1)

\* _get_secret_key: the top level of st.secrets first, then the table 'secrets'.
\* Without a secrets file every access raises, and both handlers swallow it.
GetSecretKey(env, names) ==
    IF ~env.readable THEN PyNone
    ELSE LET top == FirstNonEmpty(env.top, names, 1)
         IN  IF top # PyNone THEN top
             ELSE IF env.has_nested THEN FirstNonEmpty(env.nested, names, 1)
             ELSE PyNone

\* `if key and LIB_AVAILABLE:` followed by the client's construction, whose
\* exception the surrounding try swallows before the flag is set.
SetupProvider(env, b) ==
    LET key == GetSecretKey(env, KeyNames(b))
    IN  /\ key \notin {PyNone, ""}
        /\ env.libs[b]
        /\ ~env.init_raises[b]

SetupApiClients(env) ==
    [openai |-> SetupProvider(env, "openai"),
     gemini |-> SetupProvider(env, "gemini"),
     anthropic |-> SetupProvider(env, "anthropic")]

\* Variant of GetAvailableModels: Gemini's models come before Anthropic's.
GetAvailableModels_GeminiBeforeAnthropic(av) ==
    (IF av.openai THEN <<"gpt-4", "gpt-3.5-turbo">> ELSE <<>>)
    \o (IF av.gemini THEN <<"gemini-1.5-pro">> ELSE <<>>)
    \o (IF av.anthropic THEN <<"claude-3-5-sonnet-20240620">> ELSE <<>>)

GetAvailableModels(av) ==
    (IF av.openai THEN <<"gpt-4", "gpt-3.5-turbo">> ELSE <<>>)
    \o (IF av.anthropic THEN <<"claude-3-5-sonnet-20240620">> ELSE <<>>)
    \o (IF av.gemini THEN <<"gemini-1.5-pro">> ELSE <<>>)

----------------------------------------------------------------------------
(* SpecAI: generate_content with every argument                            *)

TypeOK ==
    /\ openai_available \in BOOLEAN
    /\ anthropic_available \in BOOLEAN
    /\ gemini_available \in BOOLEAN
    /\ now \in 0..MaxTime
    /\ calls \in 0..MaxCalls

Providers == {"openai", "anthropic", "gemini"}

AllProviders(v) == [b \in Providers |-> v]

\* What setup_api_clients finds: st.secrets (readable or not, its top level
\* and its table 'secrets'), the client libraries that could be imported and
\* the clients whose construction raises.
Env(top, has_nested, nested, libs, init_raises, readable) ==
    [top |-> top, has_nested |-> has_nested, nested |-> nested, libs |-> libs,
     init_raises |-> init_raises, readable |-> readable]

\* A flat secrets file with a key for each provider of S.
FlatSecrets(S) == [k \in {KeyNames(b)[1] : b \in S} |-> "sk"]

FlatEnvs ==
    {Env(FlatSecrets(S), FALSE, EmptyDict, AllProviders(TRUE), AllProviders(FALSE), TRUE) :
        S \in SUBSET Providers}

\* OpenAI's first name holds "" and its last name the key; Gemini's key is in
\* the table 'secrets'; Anthropic's key is there but its client raises.
EnvMixed ==
    Env([k \in {"OPENAI_API_KEY", "openai_key", "ANTHROPIC_API_KEY"} |->
            IF k = "OPENAI_API_KEY" THEN "" ELSE "sk"],
        TRUE, [k \in {"GEMINI_API_KEY"} |-> "sk"],
        AllProviders(TRUE), [AllProviders(FALSE) EXCEPT !["anthropic"] = TRUE], TRUE)

\* Only empty keys, at the top level and in the table.
EnvEmptyKeys ==
    Env([k \in {"OPENAI_API_KEY"} |-> ""], TRUE, [k \in {"ANTHROPIC_API_KEY"} |-> ""],
        AllProviders(TRUE), AllProviders(FALSE), TRUE)

\* Every key present, the openai library not installed.
EnvNoOpenAILibrary ==
    Env(FlatSecrets(Providers), FALSE, EmptyDict,
        [AllProviders(TRUE) EXCEPT !["openai"] = FALSE], AllProviders(FALSE), TRUE)

\* No secrets file.
EnvNoSecretsFile ==
    Env(EmptyDict, FALSE, EmptyDict, AllProviders(TRUE), AllProviders(FALSE), FALSE)

Environments ==
    FlatEnvs \cup {EnvMixed, EnvEmptyKeys, EnvNoOpenAILibrary, EnvNoSecretsFile}

\* State after AIManager(): __init__ has run setup_api_clients.
InitAI ==
    /\ \E env \in Environments :
          /\ openai_available = SetupApiClients(env).openai
          /\ anthropic_available = SetupApiClients(env).anthropic
          /\ gemini_available = SetupApiClients(env).gemini
          /\ lastOp = Op("setup_api_clients", env, "None")
    /\ gen = NoCall
    /\ workflow_data = DefaultWorkflowData(0)
    /\ now = 0
    /\ calls = 0

\* One call per run: the manager keeps nothing from one call to the next.
CallGenerateContent(model, outcomes, delays) ==
    /\ ~gen.called
    /\ gen' = Called(model, GenerateContent(model, Avail, outcomes, delays))
    /\ lastOp' = Op("generate_content", 0, "None")
    /\ UNCHANGED <<aiVars, workflow_data, now, calls>>

CallGetAvailableModels ==
    /\ calls < MaxCalls
    /\ lastOp' = Op("get_available_models", 0, GetAvailableModels(Avail))
    /\ calls' = calls + 1
    /\ UNCHANGED <<aiVars, gen, workflow_data, now>>

NextAI ==
    \/ \E model \in ModelArgs, outcomes \in OutcomeSeqs, delays \in DelaySeqs :
          CallGenerateContent(model, outcomes, delays)
    \/ CallGetAvailableModels

SpecAI == InitAI /\ [][NextAI]_vars

----------------------------------------------------------------------------
(* SpecStore: the StateManager methods called directly                     *)

\* A session without workflow_data, and a session whose workflow_data was
\* written before the keys selected_model and options existed, with step 1 done.
FreshSession == EmptyDict

RestoredWorkflowData ==
    LET wd == SaveStepData(MarkStepCompleted(DefaultWorkflowData(0), 1, 0),
                           1, StepPayload(1), 0)
    IN  [k \in DOMAIN wd \ {"selected_model", "options"} |-> wd[k]]

RestoredSession == [k \in {"workflow_data"} |-> RestoredWorkflowData]

StoreSessions == {FreshSession, RestoredSession}

\* A fresh session starts with the first initialize_session_state done; a
\* restored one starts as it was left.
InitStore ==
    /\ openai_available = FALSE
    /\ anthropic_available = FALSE
    /\ gemini_available = FALSE
    /\ gen = NoCall
    /\ \E session \in StoreSessions :
          IF HasKey(session, "workflow_data")
          THEN /\ workflow_data = session["workflow_data"]
               /\ lastOp = Op("init", 0, "restored")
          ELSE /\ workflow_data =
                      InitializeSessionState(CreateIfMissing(session, 0)["workflow_data"], 0)
               /\ lastOp = Op("init", 0, "fresh")
    /\ now = 0
    /\ calls = 0

StoreInitializeSessionState(t) ==
    /\ calls < MaxCalls
    /\ LET session == [k \in {"workflow_data"} |-> workflow_data]
       IN  workflow_data' =
               InitializeSessionState(CreateIfMissing(session, t)["workflow_data"], t)
    /\ lastOp' = Op("initialize_session_state", 0, "None")
    /\ now' = t
    /\ calls' = calls + 1
    /\ UNCHANGED <<aiVars, gen>>

StoreCanProceedToStep(n) ==
    /\ calls < MaxCalls
    /\ lastOp' = Op("can_proceed_to_step", n,
                    IF CanProceedToStep(workflow_data, n) THEN "True" ELSE "False")
    /\ calls' = calls + 1
    /\ UNCHANGED <<aiVars, gen, workflow_data, now>>

\* export_project_state at t1, then import_project_state of its text at t2.
StoreExportThenImport(t1, t2) ==
    /\ calls < MaxCalls
    /\ LET r == ImportProjectState(workflow_data, ExportProjectState(workflow_data, t1), t2)
       IN  /\ workflow_data' = r.wd
           /\ lastOp' = Op("export_then_import", t1, r.ret)
    /\ now' = t2
    /\ calls' = calls + 1
    /\ UNCHANGED <<aiVars, gen>>

StoreMarkStepCompleted(n, t) ==
    /\ calls < MaxCalls
    /\ workflow_data' = MarkStepCompleted(workflow_data, n, t)
    /\ now' = t
    /\ lastOp' = Op("mark_step_completed", n, "None")
    /\ calls' = calls + 1
    /\ UNCHANGED <<aiVars, gen>>

StoreSaveStepData(n, data, t) ==
    /\ calls < MaxCalls
    /\ workflow_data' = SaveStepData(workflow_data, n, data, t)
    /\ now' = t
    /\ lastOp' = Op("save_step_data", n, "None")
    /\ calls' = calls + 1
    /\ UNCHANGED <<aiVars, gen>>

StoreSetCurrentStep(n) ==
    /\ calls < MaxCalls
    /\ workflow_data' = SetCurrentStep(workflow_data, n)
    /\ lastOp' = Op("set_current_step", n, "None")
    /\ calls' = calls + 1
    /\ UNCHANGED <<aiVars, gen, now>>

StoreImportProjectState(file, t) ==
    /\ calls < MaxCalls
    /\ LET r == ImportProjectState(workflow_data, file, t)
       IN  /\ workflow_data' = r.wd
           /\ lastOp' = Op("import_project_state", FileIndex(file), r.ret)
    /\ now' = t
    /\ calls' = calls + 1
    /\ UNCHANGED <<aiVars, gen>>

NextStore ==
    \/ \E n \in StepArgs, t \in now..MaxTime : StoreMarkStepCompleted(n, t)
    \/ \E n \in StepArgs, data \in PayloadArgs,
          t \in now..MaxTime : StoreSaveStepData(n, data, t)
    \/ \E n \in StepArgs : StoreSetCurrentStep(n)
    \/ \E file \in ImportFiles, t \in now..MaxTime : StoreImportProjectState(file, t)
    \/ \E t \in now..MaxTime : StoreInitializeSessionState(t)
    \/ \E n \in StepArgs : StoreCanProceedToStep(n)
    \/ \E t1 \in now..MaxTime : \E t2 \in t1..MaxTime : StoreExportThenImport(t1, t2)

SpecStore == InitStore /\ [][NextStore]_vars

----------------------------------------------------------------------------
(* Spec: a user session.  Every action is one click and the script run it  *)
(* triggers, up to and including the st.rerun() that ends the handler.     *)

\* Two models of the sidebar's select box (ai_models): its first entry and the
\* Anthropic one.
AppModels == {"gpt-4-turbo-preview", "claude-3-5-sonnet-20240620"}

\* The files given to the page's file uploader.
UploadedFiles == {FileCurrentStepOnly, FileStepPastEnd, FileThreeDone, FileNumber}

\* The provider configurations of a session: every provider configured, only
\* Anthropic, none.
AppAvailabilities ==
    { [openai |-> TRUE, anthropic |-> TRUE, gemini |-> TRUE],
      [openai |-> FALSE, anthropic |-> TRUE, gemini |-> FALSE],
      [openai |-> FALSE, anthropic |-> FALSE, gemini |-> FALSE] }

\* What the remote service does during a session.  The select box passes a
\* string, so that only the first attempt's outcome is ever used.
AppOutcomes ==
    { [kind |-> "ok", response |-> r, exc |-> ""] :
          r \in {[text |-> <<"{","\"","a","\"",":","1","}","!">>, total_tokens |-> 12,
                  input_tokens |-> 5, output_tokens |-> 7]} }
    \cup { [kind |-> "raise", response |-> NoResponse, exc |-> e] :
              e \in {"APITimeoutError", "AuthenticationError"} }

\* State after the first script run: initialize_session_state has created the
\* default state and the select box (index=0) has stored its model.
Init ==
    /\ \E av \in AppAvailabilities :
          /\ openai_available = av.openai
          /\ anthropic_available = av.anthropic
          /\ gemini_available = av.gemini
    /\ gen = NoCall
    /\ workflow_data =
           SetItem(DefaultWorkflowData(0), "selected_model", "gpt-4-turbo-preview")
    /\ now = 0
    /\ lastOp = Op("init", 0, "None")
    /\ calls = 0

\* The top of main() in the run that follows a click: initialize_session_state
\* back-fills missing keys and the select box stores its model again.
Rerun(wd, selected) ==
    SetItem(InitializeSessionState(wd, now), "selected_model", selected)

CurrentStep == Get(workflow_data, "current_step", 1)

\* The sidebar's "Choose AI Model" select box.
SelectModel(m) ==
    /\ workflow_data' = Rerun(workflow_data, m)
    /\ lastOp' = Op("select_model", 0, "None")
    /\ UNCHANGED <<aiVars, gen, now, calls>>

\* A navigation button of the sidebar.
NavTo(i) ==
    /\ workflow_data' =
           Rerun(SetItem(workflow_data, "current_step", i), workflow_data["selected_model"])
    /\ lastOp' = Op("nav", i, "None")
    /\ UNCHANGED <<aiVars, gen, now, calls>>

\* render_navigation_buttons: "Previous Step".
PreviousStep ==
    /\ CurrentStep > 1
    /\ workflow_data' =
           Rerun(SetItem(workflow_data, "current_step", CurrentStep - 1),
                 workflow_data["selected_model"])
    /\ lastOp' = Op("previous", CurrentStep, "None")
    /\ UNCHANGED <<aiVars, gen, now, calls>>

\* Variant of NextStep: the button is offered whether or not the current step
\* is completed.
NextStep_Unchecked ==
    /\ CurrentStep < 8
    /\ workflow_data' =
           Rerun(SetItem(workflow_data, "current_step", CurrentStep + 1),
                 workflow_data["selected_model"])
    /\ lastOp' = Op("next", CurrentStep, "None")
    /\ UNCHANGED <<aiVars, gen, now, calls>>

\* render_navigation_buttons: "Next Step", offered when the current step is completed.
NextStep ==
    /\ CurrentStep < 8
    /\ CurrentStep \in Steps /\ Get(workflow_data, CompletedKey(CurrentStep), FALSE)
    /\ workflow_data' =
           Rerun(SetItem(workflow_data, "current_step", CurrentStep + 1),
                 workflow_data["selected_model"])
    /\ lastOp' = Op("next", CurrentStep, "None")
    /\ UNCHANGED <<aiVars, gen, now, calls>>

\* Variant of PageOpen: the page does not look at the step before it.
PageOpen_NoPrerequisite(n) == CurrentStep = n

\* The page of step n is the rendered one and shows its form or its summary.
PageOpen(n) ==
    /\ CurrentStep = n
    /\ n = 1 \/ IsStepCompleted(workflow_data, n - 1)

\* Variant of Generate: the payload is saved before the response's success flag
\* is looked at.
Generate_SavesBeforeCheck(n, formValid, outcome, t1, t2) ==
    /\ PageOpen(n)
    /\ ~IsStepCompleted(workflow_data, n)
    /\ formValid \/ n = 1
    /\ IF ~formValid
       THEN /\ lastOp' = Op("generate", n, "invalid")
            /\ UNCHANGED <<workflow_data, now>>
       ELSE LET r == GenerateContent(workflow_data["selected_model"], Avail,
                                     [k \in 1..MaxAttempts |-> outcome],
                                     [k \in 1..(MaxAttempts - 1) |-> SleepMin])
                saved == SaveStepData(workflow_data, n, StepData(n, r.result), t1)
            IN  /\ IF Get(r.result, "success", FALSE)
                   THEN /\ workflow_data' =
                               Rerun(MarkStepCompleted(saved, n, t2),
                                     workflow_data["selected_model"])
                        /\ now' = t2
                        /\ lastOp' = Op("generate", n, "True")
                   ELSE /\ workflow_data' = saved
                        /\ now' = t1
                        /\ lastOp' = Op("generate", n, "False")
    /\ UNCHANGED <<aiVars, gen, calls>>

\* Step n's form is submitted: _conduct_research, _generate_outline, ...,
\* _generate_design_specs.  Step 1 returns at once on an incomplete form.
\* lastOp.ret tells the three ways a submitted form ends: "True" (the response
\* has success True), "content" (a response with content whose success is not
\* True: st.error), "False" (a response without content: st.error).
Generate(n, formValid, outcome, t1, t2) ==
    /\ PageOpen(n)
    /\ ~IsStepCompleted(workflow_data, n)
    /\ formValid \/ n = 1
    /\ IF ~formValid
       THEN /\ lastOp' = Op("generate", n, "invalid")
            /\ UNCHANGED <<workflow_data, now>>
       ELSE LET r == GenerateContent(workflow_data["selected_model"], Avail,
                                     [k \in 1..MaxAttempts |-> outcome],
                                     [k \in 1..(MaxAttempts - 1) |-> SleepMin])
            IN  /\ IF Get(r.result, "success", FALSE)
                   THEN /\ workflow_data' =
                               Rerun(MarkStepCompleted(
                                         SaveStepData(workflow_data, n, StepData(n, r.result), t1),
                                         n, t2),
                                     workflow_data["selected_model"])
                        /\ now' = t2
                        /\ lastOp' = Op("generate", n, "True")
                   ELSE /\ lastOp' = Op("generate", n,
                                         IF HasKey(r.result, "content")
                                         THEN "content" ELSE "False")
                        /\ UNCHANGED <<workflow_data, now>>
    /\ UNCHANGED <<aiVars, gen, calls>>

\* Variant of Redo: the steps after n are reset with it.
Redo_Cascade(n) ==
    /\ PageOpen(n)
    /\ IsStepCompleted(workflow_data, n)
    /\ workflow_data' =
           Rerun([k \in DOMAIN workflow_data |->
                     IF k \in {CompletedKey(m) : m \in n..NumSteps} THEN FALSE
                     ELSE IF k \in {DataKey(m) : m \in n..NumSteps} THEN EmptyDict
                     ELSE workflow_data[k]],
                 workflow_data["selected_model"])
    /\ lastOp' = Op("redo", n, "None")
    /\ UNCHANGED <<aiVars, gen, now, calls>>

\* Variant of Redo: the payload is cleared and the flag is left.
Redo_KeepsFlag(n) ==
    /\ PageOpen(n)
    /\ IsStepCompleted(workflow_data, n)
    /\ workflow_data' =
           Rerun(SetItem(workflow_data, DataKey(n), EmptyDict),
                 workflow_data["selected_model"])
    /\ lastOp' = Op("redo", n, "None")
    /\ UNCHANGED <<aiVars, gen, now, calls>>

\* The redo button of a completed step: _reset_step, then st.rerun().
Redo(n) ==
    /\ PageOpen(n)
    /\ IsStepCompleted(workflow_data, n)
    /\ workflow_data' =
           Rerun(SetItem(SetItem(workflow_data, CompletedKey(n), FALSE),
                         DataKey(n), EmptyDict),
                 workflow_data["selected_model"])
    /\ lastOp' = Op("redo", n, "None")
    /\ UNCHANGED <<aiVars, gen, now, calls>>

\* load_project: the uploaded file is parsed and merged, whatever its keys.
LoadProject(file) ==
    /\ IF file.wellformed /\ file.type = "dict"
       THEN /\ workflow_data' =
                   Rerun(Update(workflow_data, file.value), workflow_data["selected_model"])
            /\ lastOp' = Op("load_project", FileIndex(file), "True")
       ELSE /\ lastOp' = Op("load_project", FileIndex(file), "False")
            /\ UNCHANGED workflow_data
    /\ UNCHANGED <<aiVars, gen, now, calls>>

\* The sidebar's progress count: sum of the eight completed flags.
RECURSIVE StepsCompletedUpTo(_, _)
StepsCompletedUpTo(wd, i) ==
    IF i = 0 THEN 0
    ELSE StepsCompletedUpTo(wd, i - 1)
             + (IF Get(wd, CompletedKey(i), FALSE) = TRUE THEN 1 ELSE 0)

StepsCompleted(wd) == StepsCompletedUpTo(wd, NumSteps)

\* Variant of ExportOffered: seven completed steps are enough.
ExportOffered_SevenSuffice(wd) == StepsCompleted(wd) >= NumSteps - 1

\* "Export Options" is shown in the sidebar.
ExportOffered(wd) == StepsCompleted(wd) = NumSteps

ExportKinds == {"html", "markdown", "docx", "package"}

\* A button of export_options: the script runs once and the document is built
\* from workflow_data for download.
Export(kind) ==
    /\ ExportOffered(workflow_data)
    /\ workflow_data' = Rerun(workflow_data, workflow_data["selected_model"])
    /\ lastOp' = Op("export", 0, kind)
    /\ UNCHANGED <<aiVars, gen, now, calls>>

Next ==
    \/ \E m \in AppModels : SelectModel(m)
    \/ \E i \in Steps : NavTo(i)
    \/ PreviousStep
    \/ NextStep
    \/ \E n \in Steps, formValid \in BOOLEAN, outcome \in AppOutcomes,
          t1 \in now..MaxTime :
          \E t2 \in t1..MaxTime : Generate(n, formValid, outcome, t1, t2)
    \/ \E n \in Steps : Redo(n)
    \/ \E file \in UploadedFiles : LoadProject(file)
    \/ \E kind \in ExportKinds : Export(kind)

Spec == Init /\ [][Next]_vars

\* A session in which no project file is loaded: the step pages, the
\* navigation and the sidebar without "Load Project".
NextPages ==
    \/ \E m \in AppModels : SelectModel(m)
    \/ \E i \in Steps : NavTo(i)
    \/ PreviousStep
    \/ NextStep
    \/ \E n \in Steps, formValid \in BOOLEAN, outcome \in AppOutcomes,
          t1 \in now..MaxTime :
          \E t2 \in t1..MaxTime : Generate(n, formValid, outcome, t1, t2)
    \/ \E n \in Steps : Redo(n)
    \/ \E kind \in ExportKinds : Export(kind)

SpecPages == Init /\ [][NextPages]_vars

----------------------------------------------------------------------------
(* Properties of generate_content (SpecAI)                                 *)

IsCall(e) == e.ev = "call"
IsSleep(e) == e.ev = "sleep"
\* An attempt that ended in an exception: one that reached the retry loop, or
\* one the backend wrapper caught.
IsFailedAttempt(e) == e.ev = "raise" \/ (e.ev = "call" /\ e.exc # "")

CallsOf(events) == SelectSeq(events, IsCall)
SleepsOf(events) == SelectSeq(events, IsSleep)

RECURSIVE TotalSleep(_)
TotalSleep(events) ==
    IF events = <<>> THEN 0 ELSE Head(events).delay + TotalSleep(Tail(events))

\* The backend a model name's prefix identifies.
PrefixBackend(m) ==
    IF StartsWith(m, GptPrefix) THEN "openai"
    ELSE IF StartsWith(m, ClaudePrefix) THEN "anthropic"
    ELSE IF StartsWith(m, GeminiPrefix) THEN "gemini"
    ELSE "none"

IsAvailable(b) ==
    \/ b = "openai" /\ openai_available
    \/ b = "anthropic" /\ anthropic_available
    \/ b = "gemini" /\ gemini_available

AnyAvailable == openai_available \/ anthropic_available \/ gemini_available

\* The fixed preference order of the fall-back: OpenAI, Gemini, Anthropic.
FirstAvailable ==
    IF openai_available THEN "openai"
    ELSE IF gemini_available THEN "gemini"
    ELSE IF anthropic_available THEN "anthropic"
    ELSE "none"

ProviderTag(b) ==
    IF b = "openai" THEN "OpenAI API error"
    ELSE IF b = "gemini" THEN "Gemini API error"
    ELSE "Anthropic API error"

IsSuccessVariant(r) ==
    /\ {"content", "model_used", "tokens_used"} \subseteq DOMAIN r
    /\ ~HasKey(r, "error")

IsFailureVariant(r) ==
    /\ HasKey(r, "error")
    /\ ~HasKey(r, "content")

\* C2: a backend call that raises a transport error is followed by a sleep and
\* a repeated call while attempts remain, and the third failed attempt returns
\* the failure 'Failed after 3 attempts: <cause>' with that attempt's cause.
C2_TransportErrorRetried ==
    gen.called =>
        \A i \in 1..Len(gen.events) :
            (IsCall(gen.events[i]) /\ gen.events[i].exc \in TransportErrors) =>
                IF gen.events[i].attempt < 2
                THEN /\ Len(gen.events) >= i + 2
                     /\ IsSleep(gen.events[i + 1])
                     /\ IsCall(gen.events[i + 2])
                     /\ gen.events[i + 2].attempt = gen.events[i].attempt + 1
                ELSE /\ HasKey(gen.result, "error")
                     /\ gen.result.error =
                            [msg |-> "Failed after 3 attempts", cause |-> gen.events[i].exc]

\* C3: a result that carries content and no error message has success = True.
C3_ContentImpliesSuccess ==
    (gen.called /\ HasKey(gen.result, "content") /\ ~HasKey(gen.result, "error"))
        => gen.result.success = TRUE

\* C4: a model name whose prefix identifies an available backend is sent to
\* that backend on the first attempt, and to no other backend.
C4_PrefixRouting ==
    (gen.called /\ IsString(gen.model) /\ IsAvailable(PrefixBackend(gen.model))) =>
        /\ gen.events # <<>>
        /\ gen.events[1] =
               Event("call", PrefixBackend(gen.model), 0, gen.events[1].exc, 0)
        /\ \A i \in 1..Len(gen.events) :
               IsCall(gen.events[i]) => gen.events[i].backend = PrefixBackend(gen.model)

\* C4 witness: 'claude-...' goes to Anthropic although OpenAI and Gemini are available.
C4_Witness ==
    /\ gen.called
    /\ gen.model = "claude-3-5-sonnet-20240620"
    /\ openai_available /\ gemini_available /\ anthropic_available
    /\ gen.events # <<>>
    /\ gen.events[1].backend = "anthropic"

\* C5: a model name with no recognised prefix, or whose prefix names an
\* unavailable backend, is sent to the first available backend in the order
\* OpenAI, Gemini, Anthropic; no call ever goes to an unavailable backend.
C5_Fallback ==
    gen.called =>
        /\ \A i \in 1..Len(gen.events) :
               IsCall(gen.events[i]) => IsAvailable(gen.events[i].backend)
        /\ (IsString(gen.model) /\ AnyAvailable /\ ~IsAvailable(PrefixBackend(gen.model))) =>
               /\ gen.events # <<>>
               /\ gen.events[1] = Event("call", FirstAvailable, 0, gen.events[1].exc, 0)

\* C5 witness: an unknown model with OpenAI unavailable goes to Gemini, not Anthropic.
C5_Witness ==
    /\ gen.called
    /\ gen.model = "llama-3"
    /\ ~openai_available /\ gemini_available /\ anthropic_available
    /\ gen.events # <<>>
    /\ gen.events[1].backend = "gemini"

\* C6: with no backend available generate_content returns the failure of its
\* entry check: no backend call, no caught exception, no sleep.
C6_NoProviders ==
    (gen.called /\ ~AnyAvailable) =>
        /\ gen.events = <<>>
        /\ IsFailureVariant(gen.result)
        /\ gen.result.error.msg =
               "No AI providers available. Please configure API keys in Streamlit Cloud secrets."
        /\ gen.result.success = FALSE

\* C6 witness: a call made with no backend available, with an argument that
\* makes the loop body raise.
C6_Witness ==
    /\ gen.called
    /\ ~AnyAvailable
    /\ gen.model = PyNone
    /\ HasKey(gen.result, "error")

\* C7: at most 3 attempts and at most 2 sleeps per call; every sleep lasts
\* 1 to 3 time units and directly follows a failed attempt that is not the
\* last; two sleeps add up to between 2 and 6 time units.
C7_BoundedRetries ==
    gen.called =>
        /\ \A i \in 1..Len(gen.events) : gen.events[i].attempt \in 0..2
        /\ Len(SelectSeq(gen.events, LAMBDA e : ~IsSleep(e))) <= 3
        /\ Len(SleepsOf(gen.events)) <= 2
        /\ \A i \in 1..Len(gen.events) :
               IsSleep(gen.events[i]) =>
                   /\ gen.events[i].delay >= 1 /\ gen.events[i].delay <= 3
                   /\ i > 1
                   /\ IsFailedAttempt(gen.events[i - 1])
                   /\ gen.events[i - 1].attempt = gen.events[i].attempt
                   /\ gen.events[i].attempt < 2
        /\ Len(SleepsOf(gen.events)) = 2 =>
               (TotalSleep(SleepsOf(gen.events)) >= 2 /\ TotalSleep(SleepsOf(gen.events)) <= 6)

\* C7 witness: a call that retried twice and gave up after the third attempt.
C7_Witness ==
    /\ gen.called
    /\ Len(SleepsOf(gen.events)) = 2
    /\ TotalSleep(SleepsOf(gen.events)) = 6
    /\ HasKey(gen.result, "error")
    /\ gen.result.error.msg = "Failed after 3 attempts"

\* C8: a backend call rejected with an application-level error ends the
\* invocation on that attempt: the result is a failure tagged with the
\* provider's name and nothing follows the call.
C8_ApplicationErrorNotRetried ==
    gen.called =>
        \A i \in 1..Len(gen.events) :
            (IsCall(gen.events[i]) /\ gen.events[i].exc \in ApplicationErrors) =>
                /\ i = Len(gen.events)
                /\ SleepsOf(gen.events) = <<>>
                /\ IsFailureVariant(gen.result)
                /\ gen.result.error =
                       [msg |-> ProviderTag(gen.events[i].backend),
                        cause |-> gen.events[i].exc]
                /\ gen.result.success = FALSE

\* C8 witness: Gemini rejects the request.
C8_Witness ==
    /\ gen.called
    /\ gen.events # <<>>
    /\ gen.events[1].backend = "gemini"
    /\ gen.events[1].exc = "AuthenticationError"
    /\ HasKey(gen.result, "error")
    /\ gen.result.error.msg = "Gemini API error"

\* C9: every call returns (no exception escapes) and the result is exactly one
\* of the two variants: content with model_used and tokens_used and no error,
\* or an error and no content.
C9_ExactlyOneVariant ==
    gen.called =>
        /\ ~gen.raised
        /\ IsSuccessVariant(gen.result) \/ IsFailureVariant(gen.result)
        /\ ~(IsSuccessVariant(gen.result) /\ IsFailureVariant(gen.result))
        /\ HasKey(gen.result, "content") \/ HasKey(gen.result, "error")
        /\ ~(HasKey(gen.result, "content") /\ HasKey(gen.result, "error"))

\* C9 witness: OpenAI's error path, reached through the fall-back.
C9_Witness ==
    /\ gen.called
    /\ gen.model = "GPT-4"
    /\ gen.events # <<>>
    /\ gen.events[1].backend = "openai"
    /\ gen.events[1].exc = "APITimeoutError"
    /\ IsFailureVariant(gen.result)

----------------------------------------------------------------------------
(* Properties of the store (SpecStore)                                     *)

\* C10: mark_step_completed(n) sets step n's completed flag; for n in 1..7 it
\* sets current_step to n + 1, for n = 8 it leaves current_step as it was.
C10_MarkStepCompletedAdvances ==
    [][ lastOp'.op = "mark_step_completed" =>
            LET n == lastOp'.arg
            IN  /\ n \in 1..7 =>
                       /\ workflow_data'[CompletedKey(n)] = TRUE
                       /\ workflow_data'["current_step"] = n + 1
                /\ n = 8 =>
                       /\ workflow_data'[CompletedKey(8)] = TRUE
                       /\ workflow_data'["current_step"] = workflow_data["current_step"]
                       /\ workflow_data["current_step"] <= 8 =>
                              workflow_data'["current_step"] <= 8 ]_vars

\* C10 witness: mark_step_completed(3) moved the pointer to 4 and
\* mark_step_completed(8) then left it there.
C10_Witness ==
    /\ lastOp = Op("mark_step_completed", 8, "None")
    /\ workflow_data[CompletedKey(8)] = TRUE
    /\ workflow_data[CompletedKey(3)] = TRUE
    /\ workflow_data["current_step"] = 4

----------------------------------------------------------------------------
(* Properties of a session (Spec)                                          *)

\* Every step below the current one is completed.
BehindCompleted(wd) ==
    \A i \in Steps : i < Get(wd, "current_step", 1) => IsStepCompleted(wd, i)

\* C1 as stated: in every reachable state of a session every step lower than
\* current_step is completed.
C1_CurrentStepBehindCompleted == BehindCompleted(workflow_data)

\* C1 as amended: Previous/Next, a step's generate action and a step's redo
\* action keep "every step lower than current_step is completed" true.
C1_PageActionsPreserve ==
    [][ (lastOp'.op \in {"previous", "next", "generate", "redo"}
         /\ BehindCompleted(workflow_data))
            => BehindCompleted(workflow_data') ]_vars

\* C1 witness: Next has moved the pointer past two completed steps.
C1_Witness ==
    /\ lastOp = Op("next", 2, "None")
    /\ workflow_data["current_step"] = 3
    /\ ~IsStepCompleted(workflow_data, 3)
    /\ BehindCompleted(workflow_data)

----------------------------------------------------------------------------
(* Properties of the workflow store (SpecStore) and of the step pages.     *)

\* The completion flag of step i as stored, False when the key is missing.
Flag(wd, i) == Get(wd, CompletedKey(i), FALSE)

\* C11: can_proceed_to_step(n) returns True exactly when every step 1..n-1 is
\* completed (False as soon as one of them is not, and step 9 and beyond count
\* as never completed); the answer is a function of the completion flags alone,
\* whatever current_step and the payloads are.
C11_CanProceedIffPrefixCompleted ==
    lastOp.op = "can_proceed_to_step" =>
        ((lastOp.ret = "True") <=>
            \A i \in 1..(lastOp.arg - 1) : i \in Steps /\ Flag(workflow_data, i) = TRUE)

\* can_proceed_to_step(4) answered False with steps 1 and 3 completed and step
\* 2 not.
C11_Witness ==
    /\ lastOp = Op("can_proceed_to_step", 4, "False")
    /\ Flag(workflow_data, 1) = TRUE
    /\ Flag(workflow_data, 2) = FALSE
    /\ Flag(workflow_data, 3) = TRUE

\* C12: after any sequence of store and page operations, imports of a project
\* document included, current_step is an integer in 1..8.
C12_CurrentStepInRange == Get(workflow_data, "current_step", 1) \in Steps

\* The document of an import or load that lastOp records under index i.
FileOf(i) == ImportFileSeq[i]

\* A JSON object without project_name or without current_step.
LacksRequiredField(file) ==
    /\ file.wellformed
    /\ file.type = "dict"
    /\ \E field \in {"project_name", "current_step"} : field \notin DOMAIN file.value

\* C13: import_project_state of a text that is not valid JSON, or of an object
\* without project_name or without current_step, returns False and leaves every
\* key of workflow_data, last_updated included, as it was.
C13_RejectedImportLeavesState ==
    [][(/\ lastOp'.op = "import_project_state"
        /\ \/ ~FileOf(lastOp'.arg).wellformed
           \/ LacksRequiredField(FileOf(lastOp'.arg)))
       => (lastOp'.ret = "False" /\ workflow_data' = workflow_data)]_vars

\* An object without current_step was refused at time 1 in a state that step
\* 3's completion had moved to step 4 at time 0.
C13_Witness ==
    /\ lastOp = Op("import_project_state", FileIndex(FileNoCurrentStep), "False")
    /\ workflow_data["current_step"] = 4
    /\ workflow_data["project_name"] = ""
    /\ workflow_data["last_updated"] = 0
    /\ now = 1

\* C14: a project file loaded with the page's Load Project that has no
\* project_name or no current_step is rejected as a whole: the session's
\* workflow_data is left as it was.
C14_LoadRejectsIncompleteFile ==
    [][(lastOp'.op = "load_project" /\ LacksRequiredField(FileOf(lastOp'.arg)))
       => workflow_data' = workflow_data]_vars

\* C15: import_project_state answers True or False for every text; no exception
\* leaves it, also for valid JSON that is not an object.
C15_ImportNeverRaises ==
    lastOp.op = "import_project_state" => lastOp.ret \in {"True", "False"}

\* The keys on which two states differ (a key only one of them has counts).
Differing(wd1, wd2) ==
    {k \in DOMAIN wd1 \cup DOMAIN wd2 :
        ~(HasKey(wd1, k) /\ HasKey(wd2, k) /\ wd1[k] = wd2[k])}

ImportedDocument ==
    IF lastOp'.op = "export_then_import"
    THEN ExportProjectState(workflow_data, lastOp'.arg).value
    ELSE FileOf(lastOp'.arg).value

IsSuccessfulImport ==
    /\ lastOp'.op \in {"import_project_state", "export_then_import"}
    /\ lastOp'.ret = "True"

\* C17 as stated: after a successful import every top-level key of the document
\* has the imported value and every other key of the prior state has its prior
\* value.
C17_ShallowMerge ==
    [][IsSuccessfulImport
       => /\ \A k \in DOMAIN ImportedDocument : workflow_data'[k] = ImportedDocument[k]
          /\ \A k \in DOMAIN workflow_data \ DOMAIN ImportedDocument :
               HasKey(workflow_data', k) /\ workflow_data'[k] = workflow_data[k]]_vars

\* C17 amended: the same for every key other than last_updated, which holds the
\* import time whether or not the document has it.
C17_ShallowMergeButLastUpdated ==
    [][IsSuccessfulImport
       => /\ \A k \in DOMAIN ImportedDocument \ {"last_updated"} :
               workflow_data'[k] = ImportedDocument[k]
          /\ \A k \in DOMAIN workflow_data \ (DOMAIN ImportedDocument \cup {"last_updated"}) :
               HasKey(workflow_data', k) /\ workflow_data'[k] = workflow_data[k]
          /\ workflow_data'["last_updated"] = now']_vars

\* The three-steps-done document was imported at time 1 into a state that had
\* step 5 completed: steps 1..3 came from the document, step 5 stayed.
C17_Witness ==
    /\ lastOp = Op("import_project_state", FileIndex(FileThreeDone), "True")
    /\ Flag(workflow_data, 3) = TRUE
    /\ Flag(workflow_data, 5) = TRUE
    /\ workflow_data["current_step"] = 4
    /\ workflow_data["last_updated"] = 1

\* current_step 1, every flag False, every payload empty.
IsDefaultState(wd) ==
    /\ wd["current_step"] = 1
    /\ \A n \in Steps : wd[CompletedKey(n)] = FALSE /\ wd[DataKey(n)] = EmptyDict

\* C18: initialize_session_state creates the default state in a session without
\* workflow_data; in a session with one it adds the default keys that are
\* missing, with their default values, and changes no key that is present; a
\* call right after another changes nothing.
C18_InitializeIdempotent ==
    /\ [](lastOp = Op("init", 0, "fresh") => IsDefaultState(workflow_data))
    /\ [][lastOp'.op = "initialize_session_state"
          => /\ \A k \in DOMAIN workflow_data :
                  HasKey(workflow_data', k) /\ workflow_data'[k] = workflow_data[k]
             /\ DOMAIN workflow_data' = DOMAIN workflow_data \cup DOMAIN DefaultWorkflowData(now')
             /\ \A k \in DOMAIN workflow_data' \ DOMAIN workflow_data :
                  workflow_data'[k] = DefaultWorkflowData(now')[k]
             /\ lastOp.op = "initialize_session_state" => workflow_data' = workflow_data]_vars

\* The restored session, step 1 done and its payload saved, has been given the
\* keys it lacked.
C18_Witness ==
    /\ lastOp.op = "initialize_session_state"
    /\ HasKey(workflow_data, "options")
    /\ HasKey(workflow_data, "selected_model")
    /\ Flag(workflow_data, 1) = TRUE
    /\ workflow_data[DataKey(1)] = StepPayload(1)
    /\ workflow_data["current_step"] = 2
    /\ calls = 1

\* C19: for n outside 1..8, mark_step_completed(n), save_step_data(n, d) and
\* set_current_step(n) return without changing the state, is_step_completed(n)
\* is False and get_step_data(n) is the empty mapping.
C19_OutOfRangeIsNoOp ==
    /\ [](\A n \in StepArgs \ Steps :
            /\ IsStepCompleted(workflow_data, n) = FALSE
            /\ GetStepData(workflow_data, n) = EmptyDict)
    /\ [][(/\ lastOp'.op \in {"mark_step_completed", "save_step_data", "set_current_step"}
           /\ lastOp'.arg \notin Steps)
          => (workflow_data' = workflow_data /\ lastOp'.ret = "None")]_vars

\* set_current_step(9) was called with current_step at 4.
C19_Witness ==
    /\ lastOp = Op("set_current_step", NumSteps + 1, "None")
    /\ workflow_data["current_step"] = 4

\* C20: for n in 2..8, step n's generate action runs only in a state where
\* step n-1 is completed and step n is not; while step n-1 is not completed
\* the page of step n offers no generation.
C20_GenerateNeedsPrevious ==
    [][(lastOp'.op = "generate" /\ lastOp'.arg \in 2..NumSteps)
       => /\ Flag(workflow_data, lastOp'.arg - 1) = TRUE
          /\ Flag(workflow_data, lastOp'.arg) = FALSE]_vars

\* Step 3 was generated with step 2 completed, step 1 having been reset by its
\* redo.
C20_Witness ==
    /\ lastOp = Op("generate", 3, "True")
    /\ Flag(workflow_data, 1) = FALSE
    /\ Flag(workflow_data, 2) = TRUE
    /\ Flag(workflow_data, 3) = TRUE

----------------------------------------------------------------------------
(* Properties of the step pages (Spec).                                    *)

\* C21: when generate_content's result has no true success flag during step
\* n's generate action, the step stays pending: its completed flag, its
\* payload, every other step's record and current_step are unchanged.
C21_FailedGenerateChangesNothing ==
    [][(lastOp'.op = "generate" /\ lastOp'.ret # "True")
       => workflow_data' = workflow_data]_vars

\* Step 2's generation failed with step 1 completed: step 2 is still pending
\* and current_step still 2.
C21_Witness ==
    /\ lastOp = Op("generate", 2, "False")
    /\ Flag(workflow_data, 1) = TRUE
    /\ Flag(workflow_data, 2) = FALSE
    /\ workflow_data[DataKey(2)] = EmptyDict
    /\ workflow_data["current_step"] = 2

\* The clicks that leave the stored project alone but for what the step pages
\* and the navigation write.
PageOps == {"generate", "redo", "previous", "next", "nav", "select_model"}

\* C22 as stated: no action on the step pages moves a step whose completed
\* flag is true back to not completed.
C22_CompletedStaysCompleted ==
    [][lastOp'.op \in PageOps
       => \A n \in Steps : Flag(workflow_data, n) = TRUE => Flag(workflow_data', n) = TRUE]_vars

\* C22 amended: a completed step goes back to not completed only by its own
\* redo button; generate, navigation and Previous/Next move no completed step
\* back, and the redo of step n moves back step n alone.
C22_OnlyOwnRedoMovesBack ==
    [][lastOp'.op \in PageOps
       => \A n \in Steps :
            (Flag(workflow_data, n) = TRUE /\ Flag(workflow_data', n) = FALSE)
                => lastOp' = Op("redo", n, "None")]_vars

\* Step 1 was reset by its redo button while step 2 stays completed.
C22_Witness ==
    /\ lastOp = Op("redo", 1, "None")
    /\ Flag(workflow_data, 1) = FALSE
    /\ workflow_data[DataKey(1)] = EmptyDict
    /\ Flag(workflow_data, 2) = TRUE

\* C23: step n's generate and redo actions run only while step n is the
\* rendered step, and they change nothing but step n's completed flag and
\* payload, current_step and last_updated.
C23_StepActionFrame ==
    [][lastOp'.op \in {"generate", "redo"}
       => /\ CurrentStep = lastOp'.arg
          /\ Differing(workflow_data, workflow_data')
                \subseteq {CompletedKey(lastOp'.arg), DataKey(lastOp'.arg),
                           "current_step", "last_updated"}]_vars

\* Step 2 was generated at time 1: step 1's record is as step 1 left it at
\* time 0.
C23_Witness ==
    /\ lastOp = Op("generate", 2, "True")
    /\ Flag(workflow_data, 1) = TRUE
    /\ workflow_data[DataKey(1)] = StepPayload(1)
    /\ workflow_data[DataKey(2)] = StepPayload(2)
    /\ workflow_data["current_step"] = 3
    /\ workflow_data["last_updated"] = 1

----------------------------------------------------------------------------
(* Properties of the AI manager's set-up and catalogue (SpecAI).           *)

\* The backend a catalogue entry belongs to.
CatalogBackend(m) ==
    IF m \in {"gpt-4", "gpt-3.5-turbo"} THEN "openai"
    ELSE IF m = "claude-3-5-sonnet-20240620" THEN "anthropic"
    ELSE "gemini"

InAvailableBackend(m) == IsAvailable(CatalogBackend(m))

\* C24: get_available_models returns the static catalogue (OpenAI: gpt-4,
\* gpt-3.5-turbo; Anthropic: claude-3-5-sonnet-20240620; Gemini:
\* gemini-1.5-pro, in this order) restricted to the backends marked available,
\* the empty list when none is; a call changes no state, and a call after
\* another returns the same list.
C24_AvailableModels ==
    /\ [](lastOp.op = "get_available_models"
            => /\ lastOp.ret =
                     SelectSeq(<<"gpt-4", "gpt-3.5-turbo", "claude-3-5-sonnet-20240620",
                                 "gemini-1.5-pro">>, InAvailableBackend)
               /\ ~AnyAvailable => lastOp.ret = <<>>)
    /\ [][lastOp'.op = "get_available_models"
          => /\ UNCHANGED <<aiVars, gen, workflow_data, now>>
             /\ lastOp.op = "get_available_models" => lastOp'.ret = lastOp.ret]_vars

\* A second call in a row, with OpenAI and Gemini available and Anthropic not.
C24_Witness ==
    /\ lastOp.op = "get_available_models"
    /\ lastOp.ret = <<"gpt-4", "gpt-3.5-turbo", "gemini-1.5-pro">>
    /\ calls = 2

\* A non-empty value under one of the provider's names, at the top level of
\* the secrets or in their table 'secrets'.
CredentialFound(env, b) ==
    /\ env.readable
    /\ \E i \in 1..Len(KeyNames(b)) :
          \/ HasKey(env.top, KeyNames(b)[i]) /\ env.top[KeyNames(b)[i]] # ""
          \/ /\ env.has_nested
             /\ HasKey(env.nested, KeyNames(b)[i])
             /\ env.nested[KeyNames(b)[i]] # ""

\* C25: after setup_api_clients a backend is marked available exactly when a
\* non-empty credential was found for it, its client library could be imported
\* and its client's construction raised nothing; setup_api_clients returns
\* normally, also when no backend ends up available.
C25_AvailableIffConfigured ==
    lastOp.op = "setup_api_clients" =>
        /\ \A b \in Providers :
              IsAvailable(b) <=> /\ CredentialFound(lastOp.arg, b)
                                 /\ lastOp.arg.libs[b]
                                 /\ ~lastOp.arg.init_raises[b]
        /\ lastOp.ret = "None"

\* OpenAI found under its fourth name after an empty first one, Gemini found
\* in the table 'secrets', Anthropic's client raised.
C25_Witness ==
    /\ lastOp = Op("setup_api_clients", EnvMixed, "None")
    /\ openai_available
    /\ gemini_available
    /\ ~anthropic_available

----------------------------------------------------------------------------
(* The JSON extractor of the specification.                                *)

\* The first and the last position of ch in text, 0 when there is none.
FirstIndexOf(text, ch) ==
    IF \E i \in 1..Len(text) : text[i] = ch
    THEN CHOOSE i \in 1..Len(text) :
            text[i] = ch /\ \A j \in 1..(i - 1) : text[j] # ch
    ELSE 0

LastIndexOf(text, ch) ==
    IF \E i \in 1..Len(text) : text[i] = ch
    THEN CHOOSE i \in 1..Len(text) :
            text[i] = ch /\ \A j \in (i + 1)..Len(text) : text[j] # ch
    ELSE 0

DigitValue(d) ==
    CASE d = "0" -> 0 [] d = "1" -> 1 [] d = "2" -> 2 [] d = "3" -> 3 [] d = "4" -> 4
      [] d = "5" -> 5 [] d = "6" -> 6 [] d = "7" -> 7 [] d = "8" -> 8 [] OTHER -> 9

\* The parse of a one-member object {"k":d}; any other slice fails.
ParseObject(slice) ==
    IF /\ Len(slice) = 7
       /\ slice[1] = "{" /\ slice[2] = "\"" /\ slice[4] = "\"" /\ slice[5] = ":"
       /\ slice[6] \in {"0","1","2","3","4","5","6","7","8","9"}
       /\ slice[7] = "}"
    THEN [ok |-> TRUE, value |-> [k \in {slice[3]} |-> DigitValue(slice[6])]]
    ELSE [ok |-> FALSE, value |-> EmptyDict]

\* extractJSON: the slice from the first "{" to the last "}", parsed.
ExtractJSON(text) ==
    LET first == FirstIndexOf(text, "{")
        last == LastIndexOf(text, "}")
    IN  IF first = 0 \/ last < first
        THEN [ok |-> FALSE, value |-> EmptyDict]
        ELSE ParseObject(SubSeq(text, first, last))

\* C26: a step turns the generated content into its payload with the JSON
\* extractor: after a successful generation the structure stored for the step
\* is the object parsed from the slice between the first "{" and the last "}"
\* of the response text.
C26_PayloadIsExtractedJson ==
    (lastOp.op = "generate" /\ lastOp.ret = "True") =>
        LET data == workflow_data[DataKey(lastOp.arg)]
            extracted == ExtractJSON(data.ai_response.content)
        IN  extracted.ok /\ data.structure = extracted.value

\* C27: every response with content from an available backend completes the
\* step: when the selected model's backend returns content without error for
\* a submitted form of step n, the payload of step n is saved, step n is marked
\* completed and current_step advances past n.
C27_ContentCompletesStep ==
    [][(lastOp'.op = "generate" /\ lastOp'.ret \in {"True", "content"}) =>
          /\ Flag(workflow_data', lastOp'.arg) = TRUE
          /\ workflow_data'[DataKey(lastOp'.arg)] # EmptyDict
          /\ lastOp'.arg < NumSteps =>
                 workflow_data'["current_step"] = lastOp'.arg + 1]_vars

AllStepsCompleted(wd) == \A n \in Steps : Flag(wd, n) = TRUE

\* C28: the export options are offered only when all eight completed flags are
\* true: the sidebar shows them in no other state, and an export button is
\* never pressed in a state where some step is not completed.
C28_ExportOnlyWhenAllCompleted ==
    /\ [](ExportOffered(workflow_data) => AllStepsCompleted(workflow_data))
    /\ [][lastOp'.op = "export" => AllStepsCompleted(workflow_data)]_vars

C28_Witness ==
    /\ lastOp = Op("export", 0, "html")
    /\ AllStepsCompleted(workflow_data)
    /\ workflow_data["current_step"] = NumSteps

----------------------------------------------------------------------------
(* Properties of a session without a loaded project (SpecPages)            *)

CompletedIsPrefix(wd) ==
    \A n \in Steps : Flag(wd, n) = TRUE => \A m \in 1..(n - 1) : Flag(wd, m) = TRUE

\* C29 as stated: in every state reached through the step pages and the
\* navigation alone (generate, redo, sidebar navigation, Previous/Next, no
\* load), the set of completed steps is a prefix of 1..8.
C29_CompletedIsPrefix == CompletedIsPrefix(workflow_data)

\* C29, amended: without a load, the session starts with no completed step and
\* every action other than a redo takes a state whose completed steps are a
\* prefix of 1..8 to another such state; a redo of step n takes n alone out of
\* the set.
C29_PrefixKeptExceptByRedo ==
    /\ [](lastOp.op = "init" => \A n \in Steps : Flag(workflow_data, n) = FALSE)
    /\ [][(lastOp'.op # "redo" /\ CompletedIsPrefix(workflow_data)) =>
              CompletedIsPrefix(workflow_data')]_vars
    /\ [][lastOp'.op = "redo" =>
              \A n \in Steps :
                  Flag(workflow_data', n) =
                      (Flag(workflow_data, n) /\ n # lastOp'.arg)]_vars

C29_Witness ==
    /\ lastOp = Op("generate", 3, "True")
    /\ \A n \in 1..3 : Flag(workflow_data, n) = TRUE
    /\ \A n \in 4..NumSteps : Flag(workflow_data, n) = FALSE
    /\ workflow_data["current_step"] = 4

\* C30: in every state reached without a load, a completed step has a
\* non-empty payload.
C30_CompletedHasPayload ==
    \A n \in Steps :
        Flag(workflow_data, n) = TRUE => workflow_data[DataKey(n)] # EmptyDict

C30_Witness ==
    /\ lastOp = Op("redo", 2, "None")
    /\ Flag(workflow_data, 1) = TRUE
    /\ workflow_data[DataKey(1)] = StepPayload(1)
    /\ Flag(workflow_data, 2) = FALSE
    /\ workflow_data[DataKey(2)] = EmptyDict
    /\ Flag(workflow_data, 3) = TRUE
    /\ workflow_data[DataKey(3)] = StepPayload(3)

====
